---- MODULE Spec2Model ----
\* The live-data transport of the bioreactor dashboard: WebSocketManager
\* (connect / reconnect with backoff / fan-out to subscribers).
\*
\* A WebSocket object follows the WHATWG life cycle
\*   CONNECTING -> OPEN -> CLOSING -> CLOSED
\* and a connection that fails fires `error` and then `close` in one task,
\* while a clean close fires `close` alone.  The handlers the manager assigns
\* in connect() stay registered on a socket for its whole life, also after
\* this.ws no longer refers to it.
EXTENDS Integers, Sequences, FiniteSets, Bags, TLC

VARIABLES
    ws,                 \* this.ws: <<>> is null, <<s>> the socket it refers to
    detached,           \* sockets this.ws no longer refers to, handlers still set
    reconnectAttempts,  \* this.reconnectAttempts
    timers,             \* pending setTimeout callbacks, as a bag of remaining ms
    callbacks,          \* this.callbacks, a Set in insertion order
    unsubs,             \* handlers whose unsubscribe closure subscribe() returned
    config,             \* the SystemConfig the application passes to connect()
    closedByUser,       \* history: disconnect() was the last call of the user
    autoAttempts,       \* history: sockets created by timers since the last open
    failures,           \* history: connections lost since the last open
    lastDelays,         \* history: delays scheduled by the latest close task
    lossPending,        \* history: this.ws was lost while OPEN, nothing created since
    arrived,            \* history: number of frames received so far
    lastText,           \* history: event.data of the latest frame
    delivered,          \* history: per handler, the frames it was invoked with
    expected,           \* history: per handler, the frames that arrived while subscribed
    invoked,            \* history: handlers invoked for the latest frame
    threw,              \* history: handlers that threw for the latest frame
    metrics,            \* useStore: metrics, <<>> is null
    now,                \* Date.now(), in ms
    handled,            \* history: frames given to handleData so far
    published,          \* history: the setMetrics calls, in order
    baseline,           \* history: DO before the current drop, <<>> if no frame yet
    dropping,           \* history: a DO drop has begun and has not recovered
    intervalId,         \* MockWebSocketManager.intervalId, <<>> is null
    intervals,          \* window's active setInterval timers: id -> ms until due
    mockCallbacks,      \* MockWebSocketManager.callbacks, a Set in insertion order
    mounted,            \* useWebSocket consumers whose effect is in place
    emitted,            \* history: frames emitData() has generated
    mockDelivered,      \* history: per consumer, the frames its handler was given
    upstream,           \* the reactor's SQL Server accepts connections
    sensorRows,         \* timestamps of the rows the reactor database holds
    db,                 \* the DatabaseConnection object, <<>> before __init__
    dbOutcome,          \* history: how the latest call on DatabaseConnection ended
    feedWindow,         \* feed-bottle weights (g) of the frames within time_window
    latched,            \* the feed-detection latch
    feedEvents,         \* the FeedEvent log
    feedFrames          \* history: frames feed detection has seen

connVars == <<ws, detached, reconnectAttempts, timers, config>>
connHist == <<closedByUser, autoAttempts, failures, lastDelays, lossPending>>
dispVars == <<callbacks, unsubs, arrived, lastText, delivered, expected, invoked, threw>>
hookVars == <<metrics, now, handled, published, baseline, dropping>>
mockVars == <<intervalId, intervals, mockCallbacks, mounted, emitted, mockDelivered>>
wsmVars == <<connVars, connHist, dispVars>>
dbVars == <<upstream, sensorRows, db, dbOutcome>>
feedVars == <<feedWindow, latched, feedEvents, feedFrames>>
backVars == <<dbVars, feedVars>>
appVars == <<hookVars, mockVars, backVars>>
vars == <<wsmVars, appVars>>

\* ---------------------------------------------------------------- constants
maxReconnectAttempts == 5
reconnectTimeout == 1000
ReconnectPort == 8050
recovery_threshold == 95
updateInterval == 1000
weight_threshold == 50
time_window == 60
noise_filter == 20
SamplePeriod == 30

\* ------------------------------------------------------------------- bounds
MaxDetached == 3
MaxTimers == 3
MaxFrames == 2
MaxClock == 1
MaxHandled == 2
MaxEmitted == 3
MaxIntervals == 2
MaxRows == 2
MaxFeedFrames == 4

Ports == {ReconnectPort, 9000}
Handlers == {"h1", "h2"}
Consumers == {"A", "B"}
EmptyFn == [i \in {} |-> 0]
HistCap == maxReconnectAttempts + 1

Min(a, b) == IF a < b THEN a ELSE b
One(x) == SetToBag({x})

\* ------------------------------------------------------------ pure helpers
\* `ws://localhost:${config.visualization.dashboard_port}/ws`
wsEndpoint(port) == <<"ws://localhost:", port, "/ws">>

NewSocket(url) == [readyState |-> "CONNECTING", url |-> url]

IsLive(s) == s.readyState \in {"CONNECTING", "OPEN"}

\* The sockets whose handlers can still run: the one this.ws refers to and
\* the detached ones.
Handles ==
    (IF ws # <<>> THEN {[ref |-> "ws", sock |-> ws[1]]} ELSE {})
    \cup {[ref |-> "detached", sock |-> s] : s \in BagToSet(detached)}

WsAfter(h, st) ==
    IF h.ref = "ws" THEN <<[h.sock EXCEPT !.readyState = st]>> ELSE ws

DetachedAfter(h, st) ==
    IF h.ref = "ws" THEN detached
    ELSE (detached (-) One(h.sock))
         (+) (IF st = "CLOSED" THEN EmptyBag
              ELSE One([h.sock EXCEPT !.readyState = st]))

LiveSockets ==
    (IF ws # <<>> /\ IsLive(ws[1]) THEN 1 ELSE 0)
    + BagCardinality([s \in {x \in BagToSet(detached) : IsLive(x)} |-> detached[s]])

\* if (this.ws?.readyState === WebSocket.OPEN) return;
ConnectReturnsEarly == ws # <<>> /\ ws[1].readyState = "OPEN"

\* The socket this.ws referred to keeps its handlers when this.ws is
\* overwritten; a CLOSED one fires no further event.
DetachOld ==
    IF ws # <<>> /\ ws[1].readyState # "CLOSED"
    THEN detached (+) One(ws[1]) ELSE detached

\* handleDisconnect() on the pair (attempt counter, timers); `sched` collects
\* the delays it passes to setTimeout.
handleDisconnect(m) ==
    IF m.attempts < maxReconnectAttempts
    THEN [attempts |-> m.attempts + 1,
          timers   |-> m.timers (+) One(reconnectTimeout * (m.attempts + 1)),
          sched    |-> m.sched \cup {reconnectTimeout * (m.attempts + 1)}]
    ELSE m

\* The close task of a socket: onerror (when the connection failed), then
\* onclose.
CloseTask(failed) ==
    LET m0 == [attempts |-> reconnectAttempts, timers |-> timers, sched |-> {}]
        m1 == IF failed THEN handleDisconnect(m0) ELSE m0
    IN handleDisconnect(m1)

\* --------------------------------------------------------------------- Init
Init ==
    /\ ws = <<>>
    /\ detached = EmptyBag
    /\ reconnectAttempts = 0
    /\ timers = EmptyBag
    /\ callbacks = <<>>
    /\ unsubs = {}
    /\ config \in Ports
    /\ closedByUser = FALSE
    /\ autoAttempts = 0
    /\ failures = 0
    /\ lastDelays = {}
    /\ lossPending = FALSE
    /\ arrived = 0
    /\ lastText = ""
    /\ delivered = [h \in Handlers |-> <<>>]
    /\ expected = [h \in Handlers |-> <<>>]
    /\ invoked = {}
    /\ threw = {}
    /\ metrics = <<>>
    /\ now = 0
    /\ handled = 0
    /\ published = <<>>
    /\ baseline = <<>>
    /\ dropping = FALSE
    /\ intervalId = <<>>
    /\ intervals = EmptyFn
    /\ mockCallbacks = <<>>
    /\ mounted = {}
    /\ emitted = 0
    /\ mockDelivered = [k \in Consumers |-> <<>>]
    /\ upstream = TRUE
    /\ sensorRows = {}
    /\ db = <<>>
    /\ dbOutcome = [op |-> "none", reachable |-> upstream, raised |-> FALSE, rows |-> <<>>]
    /\ feedWindow = <<>>
    /\ latched = FALSE
    /\ feedEvents = <<>>
    /\ feedFrames = 0

\* ------------------------------------------------------------------ actions
\* WebSocketManager.connect(config), called by the application.
Connect ==
    /\ closedByUser' = FALSE
    /\ IF ConnectReturnsEarly
       THEN UNCHANGED <<ws, detached, lossPending>>
       ELSE /\ BagCardinality(DetachOld) <= MaxDetached
            /\ ws' = <<NewSocket(wsEndpoint(config))>>
            /\ detached' = DetachOld
            /\ lossPending' = FALSE
    /\ lastDelays' = {}
    /\ UNCHANGED <<reconnectAttempts, timers, config, autoAttempts, failures>>
    /\ UNCHANGED dispVars
    /\ UNCHANGED appVars

\* The setTimeout callback of handleDisconnect: connect() with the literal
\* configuration of lines 74-78.
TimerFire ==
    /\ BagIn(0, timers)
    /\ timers' = timers (-) One(0)
    /\ IF ConnectReturnsEarly
       THEN UNCHANGED <<ws, detached, lossPending, autoAttempts>>
       ELSE /\ BagCardinality(DetachOld) <= MaxDetached
            /\ ws' = <<NewSocket(wsEndpoint(ReconnectPort))>>
            /\ detached' = DetachOld
            /\ lossPending' = FALSE
            /\ autoAttempts' = Min(autoAttempts + 1, HistCap)
    /\ lastDelays' = {}
    /\ UNCHANGED <<reconnectAttempts, config, closedByUser, failures>>
    /\ UNCHANGED dispVars
    /\ UNCHANGED appVars

\* Time passes by one base delay; a due timer runs before later ones.
Tick ==
    /\ timers # EmptyBag
    /\ ~BagIn(0, timers)
    /\ timers' = [d \in {x - reconnectTimeout : x \in BagToSet(timers)}
                    |-> timers[d + reconnectTimeout]]
    /\ lastDelays' = {}
    /\ UNCHANGED <<ws, detached, reconnectAttempts, config>>
    /\ UNCHANGED <<closedByUser, autoAttempts, failures, lossPending>>
    /\ UNCHANGED dispVars
    /\ UNCHANGED appVars

\* ws.onopen of a socket whose handshake succeeded.
SocketOpen ==
    \E h \in Handles :
        /\ h.sock.readyState = "CONNECTING"
        /\ ws' = WsAfter(h, "OPEN")
        /\ detached' = DetachedAfter(h, "OPEN")
        /\ reconnectAttempts' = 0
        /\ autoAttempts' = 0
        /\ failures' = 0
        /\ lastDelays' = {}
        /\ UNCHANGED <<timers, config, closedByUser, lossPending>>
        /\ UNCHANGED dispVars
        /\ UNCHANGED appVars

\* The close task of a socket: the connection failed (error, then close) or
\* was closed cleanly (close alone).  A handshake never ends cleanly.
SocketClosed ==
    \E h \in Handles, failed \in BOOLEAN :
        /\ h.sock.readyState # "CLOSED"
        /\ h.sock.readyState = "CONNECTING" => failed
        /\ LET m == CloseTask(failed) IN
            /\ BagCardinality(m.timers) <= MaxTimers
            /\ reconnectAttempts' = m.attempts
            /\ timers' = m.timers
            /\ lastDelays' = m.sched
        /\ ws' = WsAfter(h, "CLOSED")
        /\ detached' = DetachedAfter(h, "CLOSED")
        /\ failures' = IF IsLive(h.sock) THEN Min(failures + 1, HistCap) ELSE failures
        /\ lossPending' = IF h.ref = "ws" /\ h.sock.readyState = "OPEN" /\ ~closedByUser
                          THEN TRUE ELSE lossPending
        /\ UNCHANGED <<config, closedByUser, autoAttempts>>
        /\ UNCHANGED dispVars
        /\ UNCHANGED appVars

\* WebSocketManager.disconnect(): ws.close() starts the close of a live
\* socket (readyState CLOSING) and leaves its handlers in place.
Disconnect ==
    /\ closedByUser' = TRUE
    /\ lossPending' = FALSE
    /\ IF ws # <<>>
       THEN /\ ws' = <<>>
            /\ detached' = IF IsLive(ws[1])
                           THEN detached (+) One([ws[1] EXCEPT !.readyState = "CLOSING"])
                           ELSE detached
            /\ BagCardinality(detached') <= MaxDetached
       ELSE UNCHANGED <<ws, detached>>
    /\ lastDelays' = {}
    /\ UNCHANGED <<reconnectAttempts, timers, config, autoAttempts, failures>>
    /\ UNCHANGED dispVars
    /\ UNCHANGED appVars

\* ----------------------------------------------------------------- fan-out
Range(q) == {q[i] : i \in 1..Len(q)}

\* Set.prototype.add: a member keeps its place, a new value goes last.
SetAdd(q, x) == IF x \in Range(q) THEN q ELSE Append(q, x)

SetDeleteClears(q, x) == IF x \in {q[i] : i \in 1..Len(q)} THEN <<>> ELSE q

\* Set.prototype.delete
SetDelete(q, x) == SelectSeq(q, LAMBDA y : y # x)

\* JSON.parse(event.data): the parsed value, or a SyntaxError.
JSONParseAcceptsAll(text) == [ok |-> TRUE, data |-> [Reactor_1_DO_Value_PPM |-> 800]]

Payloads == {"{\"Reactor_1_DO_Value_PPM\":800}", "{\"Reactor_1_DO_Value_PPM\":", "<html>"}
WellFormed == {"{\"Reactor_1_DO_Value_PPM\":800}"}
JSONParse(text) ==
    IF text \in WellFormed THEN [ok |-> TRUE, data |-> [Reactor_1_DO_Value_PPM |-> 800]]
    ELSE [ok |-> FALSE, data |-> "SyntaxError"]

\* this.callbacks.forEach(callback => callback(data)): the callbacks run in
\* insertion order, one after the other; the first that throws ends the
\* loop.  The result is the sequence of callbacks that were invoked.
notifyCallbacks(cbs, throwing) ==
    LET bad == {i \in 1..Len(cbs) : cbs[i] \in throwing}
    IN IF bad = {} THEN cbs
       ELSE SubSeq(cbs, 1, CHOOSE i \in bad : \A j \in bad : i <= j)

\* subscribe(callback)
Subscribe ==
    \E h \in Handlers :
        /\ callbacks' = SetAdd(callbacks, h)
        /\ unsubs' = unsubs \cup {h}
        /\ UNCHANGED <<arrived, lastText, delivered, expected, invoked, threw>>
        /\ UNCHANGED <<connVars, connHist>>
        /\ UNCHANGED appVars

\* The closure subscribe() returned: () => this.callbacks.delete(callback)
Unsubscribe ==
    \E h \in unsubs :
        /\ callbacks' = SetDelete(callbacks, h)
        /\ UNCHANGED <<unsubs, arrived, lastText, delivered, expected, invoked, threw>>
        /\ UNCHANGED <<connVars, connHist>>
        /\ UNCHANGED appVars

\* ws.onmessage of an OPEN socket; `throwing` are the handlers that throw
\* when they are given this frame.
Message ==
    \E h \in Handles, text \in Payloads, throwing \in SUBSET Handlers :
        /\ h.sock.readyState = "OPEN"
        /\ arrived < MaxFrames
        /\ arrived' = arrived + 1
        /\ lastText' = text
        /\ LET parsed == JSONParse(text)
               ran == IF parsed.ok THEN notifyCallbacks(callbacks, throwing) ELSE <<>>
           IN /\ invoked' = Range(ran)
              /\ threw' = Range(ran) \cap throwing
              /\ delivered' = [x \in Handlers |->
                      IF x \in Range(ran) THEN Append(delivered[x], arrived') ELSE delivered[x]]
              /\ expected' = [x \in Handlers |->
                      IF parsed.ok /\ x \in Range(callbacks)
                      THEN Append(expected[x], arrived') ELSE expected[x]]
        /\ UNCHANGED <<callbacks, unsubs>>
        /\ UNCHANGED <<connVars, connHist>>
        /\ UNCHANGED appVars

\* ------------------------------------------- derived metrics (useWebSocket)
\* A JavaScript value of a numeric field: a number, NaN, or undefined (the
\* field is missing from the frame).
Num(n) == [t |-> "number", v |-> n]
NaN == [t |-> "NaN", v |-> 0]
Undefined == [t |-> "undefined", v |-> 0]

\* (x / den) * num on JavaScript values: arithmetic on undefined or NaN
\* gives NaN.  The frames below carry multiples of 10, for which the integer
\* quotient is exact.
JsScale(x, num, den) ==
    IF x.t = "number" THEN Num((x.v * num) \div den) ELSE NaN

Abs(x) == IF x < 0 THEN -x ELSE x

\* Math.sin in thousandths, of an angle in thousandths of a radian
\* (piecewise linear between the zeros and the extrema).
Sin1000(mrad) ==
    LET x == mrad % 6283
    IN IF x <= 1571 THEN (x * 1000) \div 1571
       ELSE IF x <= 4712 THEN ((3142 - x) * 1000) \div 1571
       ELSE ((x - 6283) * 1000) \div 1571

\* Math.abs(offset + amplitude * Math.sin(Date.now() / period)), the offset,
\* the amplitude and the result in thousandths.
Simulated(offset, amplitude, t, period) ==
    Num(Abs(offset + (amplitude * Sin1000((t * 1000) \div period)) \div 1000))

\* new Date(t).toISOString(), for t within the first minute of the epoch:
\* year, month, day, hour, minute, second, millisecond.
toISOString(t) == <<1970, 1, 1, 0, 0, t \div 1000, t % 1000>>

\* RealTimeMetrics, as JSON.parse or generateMockMetrics() delivers it.
RealTimeMetrics(do) ==
    [LB_MFC_1_SP |-> Num(0), LB_MFC_1_PV |-> Num(0),
     Reactor_1_DO_Value_PPM |-> do, Reactor_1_DO_T_Value |-> Num(37),
     Reactor_1_PH_Value |-> Num(7), Reactor_1_PH_T_Value |-> Num(37)]

DOValues == {Num(-50), Num(700), Num(800), Num(1200), Undefined}
Frames == {RealTimeMetrics(do) : do \in DOValues}

\* calculateMetrics(data), run when the clock reads t.
calculateMetrics(data, t) ==
    [do_saturation |-> JsScale(data.Reactor_1_DO_Value_PPM, 100, 1000),
     drop_rate     |-> data.LB_MFC_1_PV,
     recovery_time |-> Simulated(0, 10000, t, 5000),
     our           |-> Simulated(500, 100, t, 7000),
     sour          |-> Simulated(200, 50, t, 9000),
     ph            |-> data.Reactor_1_PH_Value,
     temperature   |-> data.Reactor_1_DO_T_Value,
     timestamp     |-> toISOString(t)]

handleDataTwice(data, t) == <<calculateMetrics(data, t), calculateMetrics(data, t)>>

\* handleData(data), run when the clock reads t: the setMetrics calls it
\* makes, in order.
handleData(data, t) == <<calculateMetrics(data, t)>>

\* setMetrics: (metrics) => set({ metrics }), applied to each call in turn.
setMetrics(old, calls) == IF calls = <<>> THEN old ELSE <<calls[Len(calls)]>>

\* The store and the history one handler invocation works on.
HookState ==
    [metrics |-> metrics, handled |-> handled, published |-> published,
     baseline |-> baseline, dropping |-> dropping]

\* The drop / recovery classification the published recovery_time refers
\* to: a drop begins when DO falls below recovery_threshold percent of the
\* baseline, and has recovered when DO is back at or above it.
Recovers(st, data) ==
    /\ st.dropping
    /\ data.Reactor_1_DO_Value_PPM.t = "number"
    /\ data.Reactor_1_DO_Value_PPM.v * 100 >= recovery_threshold * st.baseline[1]

DropBegins(st, data) ==
    /\ ~st.dropping
    /\ st.baseline # <<>>
    /\ data.Reactor_1_DO_Value_PPM.t = "number"
    /\ data.Reactor_1_DO_Value_PPM.v * 100 < recovery_threshold * st.baseline[1]

\* The effect of one handler invocation, at clock reading t, with a frame
\* captured at `captured`, on the store and on the history.
AfterHandle(st, data, captured, t) ==
    LET calls == handleData(data, t)
    IN [metrics   |-> setMetrics(st.metrics, calls),
        handled   |-> st.handled + 1,
        published |-> st.published \o
              [i \in 1..Len(calls) |->
                  [rec |-> calls[i], frame |-> st.handled + 1, data |-> data,
                   captured |-> captured, recovered |-> Recovers(st, data)]],
        dropping  |-> IF DropBegins(st, data) THEN TRUE
                      ELSE IF Recovers(st, data) THEN FALSE ELSE st.dropping,
        baseline  |-> IF ~st.dropping /\ ~DropBegins(st, data)
                         /\ data.Reactor_1_DO_Value_PPM.t = "number"
                      THEN <<data.Reactor_1_DO_Value_PPM.v>> ELSE st.baseline]

SetHook(st) ==
    /\ metrics' = st.metrics
    /\ handled' = st.handled
    /\ published' = st.published
    /\ baseline' = st.baseline
    /\ dropping' = st.dropping

\* A manager delivers a frame, captured at some moment up to now, to the
\* hook's handler.
HandleData ==
    \E data \in Frames, captured \in 0..now :
        /\ handled < MaxHandled
        /\ SetHook(AfterHandle(HookState, data, captured, now))
        /\ UNCHANGED now
        /\ UNCHANGED <<wsmVars, mockVars, backVars>>

\* Time passes.
Advance ==
    /\ now < MaxClock
    /\ now' = now + 1
    /\ UNCHANGED <<metrics, handled, published, baseline, dropping>>
    /\ UNCHANGED <<wsmVars, mockVars, backVars>>

\* --------------------------------------------------- MockWebSocketManager
\* generateMockMetrics(): DO is 800 + 100 sin(now / 10000) + 20 random, a
\* value in [700, 920).
MockFrames == {RealTimeMetrics(do) : do \in {Num(700), Num(800)}}

\* window.setInterval returns an id no active timer has.
NewIntervalId ==
    CHOOSE i \in 1..(Cardinality(DOMAIN intervals) + 1) : i \notin DOMAIN intervals

\* notifyCallbacks(data): this.callbacks.forEach(callback => callback(data)),
\* every callback being the handleData of a mounted consumer.
RECURSIVE mockNotifyCallbacks(_, _, _, _)
mockNotifyCallbacks(cbs, st, data, t) ==
    IF cbs = <<>> THEN st
    ELSE mockNotifyCallbacks(Tail(cbs), AfterHandle(st, data, t, t), data, t)

\* emitData(): generateMockMetrics(), then notifyCallbacks.
emitData(data) ==
    /\ emitted' = emitted + 1
    /\ mockDelivered' = [k \in Consumers |->
           IF k \in Range(mockCallbacks)
           THEN Append(mockDelivered[k], emitted + 1) ELSE mockDelivered[k]]
    /\ SetHook(mockNotifyCallbacks(mockCallbacks, HookState, data, now))

MockConnectNeverEarly == FALSE

\* if (this.intervalId !== null) return;
MockConnectReturnsEarly == intervalId # <<>>

\* connect()
mockConnect ==
    IF MockConnectReturnsEarly
    THEN UNCHANGED <<intervalId, intervals, emitted, mockDelivered,
                     metrics, handled, published, baseline, dropping>>
    ELSE /\ emitted < MaxEmitted
         /\ Cardinality(DOMAIN intervals) < MaxIntervals
         /\ \E data \in MockFrames : emitData(data)
         /\ intervalId' = <<NewIntervalId>>
         /\ intervals' = [i \in DOMAIN intervals \cup {NewIntervalId} |->
                IF i = NewIntervalId THEN updateInterval ELSE intervals[i]]

mockDisconnectLeavesTimer ==
    IF intervalId # <<>>
    THEN /\ intervals' = intervals
         /\ intervalId' = <<>>
    ELSE UNCHANGED <<intervalId, intervals>>

\* disconnect()
mockDisconnect ==
    IF intervalId # <<>>
    THEN /\ intervals' = [i \in DOMAIN intervals \ {intervalId[1]} |-> intervals[i]]
         /\ intervalId' = <<>>
    ELSE UNCHANGED <<intervalId, intervals>>

\* mockWebSocketManager.connect(), called directly.
MockConnect ==
    /\ mockConnect
    /\ UNCHANGED <<mockCallbacks, mounted, now>>
    /\ UNCHANGED <<wsmVars, backVars>>

\* mockWebSocketManager.disconnect(), called directly.
MockDisconnect ==
    /\ mockDisconnect
    /\ UNCHANGED <<mockCallbacks, mounted, emitted, mockDelivered>>
    /\ UNCHANGED hookVars
    /\ UNCHANGED <<wsmVars, backVars>>

\* The effect of useWebSocket in consumer k: connect(), then
\* subscribe(handleData).
Mount(k) ==
    /\ k \notin mounted
    /\ mounted' = mounted \cup {k}
    /\ mockConnect
    /\ mockCallbacks' = SetAdd(mockCallbacks, k)
    /\ UNCHANGED now
    /\ UNCHANGED <<wsmVars, backVars>>

\* The cleanup of that effect: unsubscribe(), then disconnect().
Unmount(k) ==
    /\ k \in mounted
    /\ mounted' = mounted \ {k}
    /\ mockCallbacks' = SetDelete(mockCallbacks, k)
    /\ mockDisconnect
    /\ UNCHANGED <<emitted, mockDelivered>>
    /\ UNCHANGED hookVars
    /\ UNCHANGED <<wsmVars, backVars>>

\* The setInterval callback of a timer that is due: emitData().
IntervalFire ==
    \E id \in DOMAIN intervals, data \in MockFrames :
        /\ intervals[id] = 0
        /\ emitted < MaxEmitted
        /\ emitData(data)
        /\ intervals' = [intervals EXCEPT ![id] = updateInterval]
        /\ UNCHANGED <<intervalId, mockCallbacks, mounted, now>>
        /\ UNCHANGED <<wsmVars, backVars>>

\* One update interval passes; a timer that is due runs first.
MockTick ==
    /\ DOMAIN intervals # {}
    /\ \A id \in DOMAIN intervals : intervals[id] > 0
    /\ intervals' = [id \in DOMAIN intervals |-> intervals[id] - updateInterval]
    /\ now' = now + updateInterval
    /\ UNCHANGED <<intervalId, mockCallbacks, mounted, emitted, mockDelivered>>
    /\ UNCHANGED <<metrics, handled, published, baseline, dropping>>
    /\ UNCHANGED <<wsmVars, backVars>>

\* ------------------------------------------------------ DatabaseConnection
\* _test_connection(): pyodbc.connect(self.conn_str) raises when the server
\* is unreachable; the method logs the error and re-raises it.
testConnectionRaises == ~upstream

\* The rows of a set of timestamps in ascending order (ORDER BY timestamp ASC).
RECURSIVE Ascending(_)
Ascending(ts) ==
    IF ts = {} THEN <<>>
    ELSE LET m == CHOOSE x \in ts : \A y \in ts : x <= y
         IN <<m>> \o Ascending(ts \ {m})

\* get_historical_data(start_time, end_time): self.reactor_engine.connect()
\* inside a `with`, read_sql_query with BETWEEN :start_time AND :end_time;
\* the method has no exception handler, so the OperationalError of an
\* unreachable server propagates to the caller.
getHistoricalData(start_time, end_time) ==
    IF upstream
    THEN [raised |-> FALSE,
          rows |-> Ascending({t \in sensorRows : start_time <= t /\ t <= end_time})]
    ELSE [raised |-> TRUE, rows |-> <<>>]

\* DatabaseConnection(required): the engines are created lazily, then
\* _test_connection() decides; on failure the error is logged, re-raised if
\* self.required, and otherwise construction continues with
\* is_connected = False.
DbInit ==
    \E required \in BOOLEAN :
        /\ db = <<>>
        /\ IF testConnectionRaises /\ required
           THEN /\ db' = <<>>
                /\ dbOutcome' = [op |-> "__init__", reachable |-> upstream,
                                 raised |-> TRUE, rows |-> <<>>]
           ELSE /\ db' = <<[required |-> required,
                            is_connected |-> ~testConnectionRaises]>>
                /\ dbOutcome' = [op |-> "__init__", reachable |-> upstream,
                                 raised |-> FALSE, rows |-> <<>>]
        /\ UNCHANGED <<upstream, sensorRows>>
        /\ UNCHANGED <<wsmVars, hookVars, mockVars, feedVars>>

\* db.get_historical_data(start_time, end_time)
GetHistoricalData ==
    \E start_time \in 0..MaxRows, end_time \in 0..MaxRows :
        /\ db # <<>>
        /\ LET r == getHistoricalData(start_time, end_time)
           IN dbOutcome' = [op |-> "get_historical_data", reachable |-> upstream,
                            raised |-> r.raised, rows |-> r.rows]
        /\ UNCHANGED <<upstream, sensorRows, db>>
        /\ UNCHANGED <<wsmVars, hookVars, mockVars, feedVars>>

\* The reactor's server becomes unreachable, or reachable again.
UpstreamFlip ==
    /\ upstream' = ~upstream
    /\ UNCHANGED <<sensorRows, db, dbOutcome>>
    /\ UNCHANGED <<wsmVars, hookVars, mockVars, feedVars>>

\* The reactor's process control writes a row.
UpstreamInsert ==
    /\ Cardinality(sensorRows) < MaxRows
    /\ sensorRows' = sensorRows \cup {Cardinality(sensorRows) + 1}
    /\ UNCHANGED <<upstream, db, dbOutcome>>
    /\ UNCHANGED <<wsmVars, hookVars, mockVars, feedVars>>

\* ---------------------------------------------------- feed-event detection
\* Feed-bottle weights in grams, one frame every SamplePeriod seconds.
BottleWeights == {1000, 980, 949}

\* The frames of the last time_window seconds, the new one included.
WindowAfter(window, w) ==
    LET all == Append(window, w)
        keep == time_window \div SamplePeriod + 1
    IN IF Len(all) <= keep THEN all ELSE SubSeq(all, Len(all) - keep + 1, Len(all))

\* |delta weight_feed_bottle| over the window.
FeedDelta(window) ==
    IF window = <<>> THEN 0 ELSE Abs(window[Len(window)] - window[1])

feedRaisesWithoutLatch(isLatched, delta) == delta > weight_threshold

\* A feed event is raised when the change exceeds the weight threshold and
\* the latch is open.
feedRaises(isLatched, delta) == ~isLatched /\ delta > weight_threshold

\* The latch closes when an event is raised and opens again once the
\* change over the window is back within the noise band.
latchAfter(isLatched, delta) ==
    IF feedRaises(isLatched, delta) THEN TRUE
    ELSE IF isLatched /\ delta <= noise_filter THEN FALSE
    ELSE isLatched

\* Feed detection on a new frame with feed-bottle weight w.
FeedFrame ==
    \E w \in BottleWeights :
        /\ feedFrames < MaxFeedFrames
        /\ feedFrames' = feedFrames + 1
        /\ feedWindow' = WindowAfter(feedWindow, w)
        /\ LET delta == FeedDelta(feedWindow')
           IN /\ feedEvents' = IF feedRaises(latched, delta)
                               THEN Append(feedEvents, [frame |-> feedFrames', delta |-> delta])
                               ELSE feedEvents
              /\ latched' = latchAfter(latched, delta)
        /\ UNCHANGED <<wsmVars, hookVars, mockVars, dbVars>>

NextConn ==
    \/ Connect
    \/ TimerFire
    \/ Tick
    \/ SocketOpen
    \/ SocketClosed
    \/ Disconnect

SpecConn == Init /\ [][NextConn]_vars

NextDispatch ==
    \/ Connect
    \/ SocketOpen
    \/ Subscribe
    \/ Unsubscribe
    \/ Message

SpecDispatch == Init /\ [][NextDispatch]_vars

Next == NextConn \/ Subscribe \/ Unsubscribe \/ Message

NextHook == HandleData \/ Advance

SpecHook == Init /\ [][NextHook]_vars

NextMock ==
    \/ MockConnect
    \/ MockDisconnect
    \/ \E k \in Consumers : Mount(k)
    \/ \E k \in Consumers : Unmount(k)
    \/ IntervalFire
    \/ MockTick

SpecMock == Init /\ [][NextMock]_vars

NextDb == DbInit \/ GetHistoricalData \/ UpstreamFlip \/ UpstreamInsert

SpecDb == Init /\ [][NextDb]_vars

NextFeed == FeedFrame

SpecFeed == Init /\ [][NextFeed]_vars

Spec == Init /\ [][Next \/ NextHook \/ NextMock \/ NextDb \/ NextFeed]_vars

\* ------------------------------------------------------------------- claims
\* The manager is Connected or Connecting: this.ws refers to a socket that is
\* open or whose handshake is in flight.
Busy == ws # <<>> /\ IsLive(ws[1])

\* Automatic retries are exhausted: the counter is at its maximum and no
\* retry is pending.
Exhausted == reconnectAttempts = maxReconnectAttempts /\ timers = EmptyBag

\* C1: in every reachable state at most one socket whose handlers can
\* dispatch frames or trigger reconnects is live (CONNECTING or OPEN).
C1_OneLiveSocket == LiveSockets <= 1

\* C2: once disconnect() has been called (and connect() not called again),
\* no reconnect timer is pending and this.ws stays released: no automatic
\* connection attempt follows.
C2_DisconnectIsTerminal == closedByUser => (timers = EmptyBag /\ ws = <<>>)

\* C3: connect(config) called while the manager is Connected or Connecting
\* creates no socket and changes no state of the manager.
C3_ConnectIdempotent ==
    [][(Busy /\ Connect) =>
        UNCHANGED <<ws, detached, reconnectAttempts, timers, callbacks>>]_vars

\* C4: the automatic connection attempts made since the last successful open
\* never exceed the maximum, and once that many connections have failed in a
\* row no step schedules a further retry.
C4_RetriesBounded ==
    [][/\ autoAttempts' <= maxReconnectAttempts
       /\ (failures >= maxReconnectAttempts => lastDelays' = {})]_vars

\* C5: an explicit connect() made once the automatic retries are exhausted
\* resets the attempt counter to 0.
C5_ConnectResetsAttempts ==
    [][(Exhausted /\ ~Busy /\ Connect) => reconnectAttempts' = 0]_vars

\* C6: while the loss of an established connection awaits its reconnect (no
\* disconnect() since), a retry timer is pending, so that a new attempt
\* starts once timers fire; and every successful open leaves the attempt
\* counter at 0.
C6_LossIsRetried ==
    [][/\ lossPending' => timers' # EmptyBag
       /\ SocketOpen => reconnectAttempts' = 0]_vars

\* C7: the retries scheduled when the k-th consecutive connection fails are
\* scheduled after k * reconnectTimeout.
C7_LinearBackoff == lastDelays \subseteq {failures * reconnectTimeout}

\* C8: every socket the manager creates, by connect(config) or by a
\* reconnect timer, targets the endpoint derived from config.
C8_ConfiguredEndpoint == \A h \in Handles : h.sock.url = wsEndpoint(config)

\* C9: every handler has been invoked exactly once, in arrival order, with
\* each frame that arrived while it was subscribed, and with no other.
C9_ExactlyOnceInOrder == \A h \in Handlers : delivered[h] = expected[h]

\* C10: when a handler throws for a frame, every other subscribed handler is
\* still invoked for that frame.
C10_SubscribersIndependent ==
    [][(arrived' # arrived /\ threw' # {}) => Range(callbacks) \subseteq invoked']_vars

\* C11: a frame whose payload fails JSON parsing invokes no subscriber
\* handler and leaves the socket, the detached sockets, the attempt counter,
\* the timers and the subscriber set unchanged.
C11_MalformedDiscarded ==
    [][(arrived' # arrived /\ lastText' \notin WellFormed) =>
        /\ invoked' = {}
        /\ delivered' = delivered
        /\ UNCHANGED <<ws, detached, reconnectAttempts, timers, callbacks>>]_vars

\* A malformed frame has arrived on an open socket while handlers were
\* subscribed.
C11_Witness ==
    /\ arrived > 0
    /\ lastText \notin WellFormed
    /\ callbacks # <<>>
    /\ ws # <<>> /\ ws[1].readyState = "OPEN"

\* C19: a step in which a live connection fails or is lost, while retries
\* remain, increments the attempt counter by exactly one and schedules
\* exactly one retry, whether the socket fires error and close or close
\* alone.
C19_OneRetryPerFailure ==
    [][(failures' = failures + 1 /\ reconnectAttempts < maxReconnectAttempts) =>
        /\ reconnectAttempts' = reconnectAttempts + 1
        /\ BagCardinality(timers') = BagCardinality(timers) + 1]_vars

\* C12: every frame given to the hook's handler has published exactly one
\* record, the records lie in the order of their frames, and the store
\* holds the record of the latest frame.
C12_OnePerFrameInOrder ==
    /\ Len(published) = handled
    /\ \A i \in 1..Len(published) : published[i].frame = i
    /\ handled > 0 => metrics = <<published[handled].rec>>

\* Two frames have been handled, the second at a later time than the first.
C12_Witness ==
    /\ handled >= 2
    /\ Len(published) >= 2
    /\ published[1].rec.timestamp # published[2].rec.timestamp

\* C13: the timestamp of every published record is the capture time of the
\* frame that triggered it.
C13_CaptureTimestamp ==
    \A i \in 1..Len(published) :
        published[i].rec.timestamp = toISOString(published[i].captured)

\* C14: the do_saturation of every published record lies in [0, 100].
C14_SaturationClamped ==
    \A i \in 1..Len(published) :
        LET x == published[i].rec.do_saturation
        IN x.t = "number" => (0 <= x.v /\ x.v <= 100)

\* A frame is complete when every field calculateMetrics reads is a number.
Complete(data) ==
    \A f \in {"Reactor_1_DO_Value_PPM", "LB_MFC_1_PV", "Reactor_1_PH_Value",
              "Reactor_1_DO_T_Value"} : data[f].t = "number"

\* C15: no record is published for a frame with a missing or NaN field, so
\* the store never holds metrics derived from such a frame.
C15_IncompleteRejected ==
    /\ \A i \in 1..Len(published) : Complete(published[i].data)
    /\ metrics # <<>> => metrics[1].do_saturation.t = "number"

\* C16: a record carries a recovery_time only if its frame brought DO back
\* to at least recovery_threshold percent of the baseline after a drop.
C16_RecoveryOnlyAfterRecovery ==
    \A i \in 1..Len(published) :
        published[i].rec.recovery_time.t = "number" => published[i].recovered

\* C20: at most one emission timer is active, and a connect() made while a
\* timer is active, directly or by a consumer's effect, emits no frame and
\* starts no timer.
C20_MockConnectIdempotent ==
    [][/\ Cardinality(DOMAIN intervals') <= 1
       /\ ((MockConnect \/ \E k \in Consumers : Mount(k)) /\ DOMAIN intervals # {})
            => UNCHANGED <<intervalId, intervals, emitted, mockDelivered, published>>]_vars

\* The effect of a second consumer has called connect() while the timer of
\* the first was active: both are mounted, one timer runs, and only the
\* first connect() has emitted a frame.
C20_Witness ==
    /\ mounted = Consumers
    /\ intervalId # <<>>
    /\ Cardinality(DOMAIN intervals) = 1
    /\ emitted = 1

\* C17: with required = False and the reactor's server unreachable,
\* __init__ returns without raising, and a historical range query made
\* while the server is unreachable returns no rows and does not raise.
C17_OptionalStoreDegrades ==
    (db # <<>> /\ ~db[1].required /\ ~dbOutcome.reachable) =>
        (~dbOutcome.raised /\ dbOutcome.rows = <<>>)

\* C18: a frame whose feed-bottle weight change is within the noise filter
\* raises no FeedEvent; a change above the weight threshold raises exactly
\* one; and while the latch of that event is closed and the weight stays
\* outside the noise band, no further event is raised.
C18_OneEventPerTransition ==
    [][feedFrames' # feedFrames =>
        LET delta == FeedDelta(feedWindow')
        IN /\ delta <= noise_filter => feedEvents' = feedEvents
           /\ (delta > weight_threshold /\ ~latched) =>
                  Len(feedEvents') = Len(feedEvents) + 1
           /\ (latched /\ delta > noise_filter) => feedEvents' = feedEvents]_vars

\* A 20 g change raised nothing, a 51 g change raised one event, and a
\* later frame arrived with the weight still 51 g off: the log still holds
\* that one event.
C18_Witness ==
    /\ feedFrames = 4
    /\ feedWindow = <<980, 949, 949>>
    /\ latched
    /\ Len(feedEvents) = 1
    /\ feedEvents[1].frame = 3
    /\ feedEvents[1].delta = 51

\* C21: while the manager is disconnected (intervalId is null) no timer is
\* left and the only step that emits a frame is a connect(), which emits
\* one frame at once and arms the timer for a full update interval; while
\* it is connected a frame is emitted only by the timer when it is due,
\* and the timer is then armed for the next full interval.
C21_DisconnectStopsEmission ==
    [][/\ intervalId' = <<>> => DOMAIN intervals' = {}
       /\ (intervalId = <<>> /\ emitted' # emitted) =>
              /\ emitted' = emitted + 1
              /\ intervalId' # <<>>
              /\ intervals'[intervalId'[1]] = updateInterval
       /\ ((MockConnect \/ \E k \in Consumers : Mount(k)) /\ intervalId = <<>>)
              => emitted' = emitted + 1
       /\ (intervalId # <<>> /\ emitted' # emitted) =>
              /\ emitted' = emitted + 1
              /\ intervalId' = intervalId
              /\ intervals[intervalId[1]] = 0
              /\ intervals'[intervalId[1]] = updateInterval]_vars

\* A consumer was mounted, the manager was disconnected and connected
\* again: the second connect() delivered frame 2 at once (at 0 ms) and the
\* timer delivered frame 3 one update interval later.
C21_Witness ==
    /\ intervalId # <<>>
    /\ now = updateInterval
    /\ mockDelivered["A"] = <<2, 3>>
    /\ Len(published) = 2
    /\ published[1].rec.timestamp = toISOString(0)
    /\ published[2].rec.timestamp = toISOString(updateInterval)

\* C22: when a consumer unmounts while the manager is connected and another
\* consumer stays mounted, only the leaving consumer's subscription is
\* removed and the manager stays connected with its timer running.
C22_UnmountKeepsOthers ==
    [][(intervalId # <<>> /\ mounted' # {} /\ mounted' # mounted
            /\ mounted' \subseteq mounted) =>
        /\ Range(mockCallbacks') = Range(mockCallbacks) \ (mounted \ mounted')
        /\ intervalId' # <<>>
        /\ DOMAIN intervals' # {}]_vars

\* C23: every frame emitted in a step after which consumer k is mounted,
\* the frame of its own mount effect's connect() included, is given to k's
\* handler.
C23_MountedSeesEveryFrame ==
    [][\A k \in Consumers :
          (k \in mounted' /\ emitted' # emitted) =>
              mockDelivered'[k] = Append(mockDelivered[k], emitted')]_vars

\* C24: a frame invokes only handlers that are subscribed, so a handler whose
\* unsubscribe function has run is not invoked until it is subscribed
\* again; and the step that removes a handler keeps the other handlers, in
\* their order, and leaves the socket, the detached sockets, the attempt
\* counter and the timers unchanged.
C24_UnsubscribeIsLocal ==
    [][/\ arrived' # arrived => invoked' \subseteq Range(callbacks)
       /\ \A h \in Handlers :
              (h \in Range(callbacks) /\ h \notin Range(callbacks')) =>
                  /\ callbacks' = SelectSeq(callbacks, LAMBDA x : x # h)
                  /\ UNCHANGED <<ws, detached, reconnectAttempts, timers>>]_vars

\* h1 and h2 were given frame 1, h1's unsubscribe function ran, and frame 2
\* was given to h2 alone.
C24_Witness ==
    /\ callbacks = <<"h2">>
    /\ "h1" \in unsubs
    /\ delivered["h1"] = <<1>>
    /\ delivered["h2"] = <<1, 2>>
    /\ invoked = {"h2"}

====
